---- MODULE Spec2Model ----
(***************************************************************************)
(* TFBSFinder, part1.py: IUPAC consensus validation and compilation, the   *)
(* overlapping-match scan, FASTA parsing and the result writer, as state   *)
(* machines.  Strings are sequences of one-character strings.              *)
(*                                                                         *)
(*   MatchSpec : validate_consensus, build_regex_from_consensus and one    *)
(*               regex.match on a window, over the whole IUPAC alphabet    *)
(*   ScanSpec  : the while loop of find_overlapping_matches, one iteration *)
(*               per step                                                  *)
(*   Spec      : main -> validate_consensus -> process_fasta_file, then    *)
(*               part2.py's analyze_tfbs_output on the file written        *)
(***************************************************************************)
EXTENDS Integers, Sequences, FiniteSets, TLC

VARIABLES
  pc,         \* position of the running function
  consensus,  \* the consensus argument
  error,      \* None, or Some(exception raised)
  pattern,    \* None, or Some(pattern compiled by re.compile)
  sequence,   \* the string being matched or scanned
  start,      \* find_overlapping_matches: start
  matches,    \* find_overlapping_matches / process_fasta_file: matches
  iters,      \* number of iterations the while loop has begun
  accepted,   \* result of regex.match on the window, as a truth value
  delimiter,  \* process_fasta_file: delimiter
  fasta,      \* None, or Some(lines of the input file read by parse_fasta)
  sequences,  \* None, or Some(dict returned by parse_fasta), in insertion order
  idx,        \* number of dict items the for loop has consumed
  output,     \* None (never opened), or Some(lines written to output_file)
  analysis    \* None, or Some(outcome of analyze_tfbs_output on the output file)

vars == <<pc, consensus, error, pattern, sequence, start, matches, iters,
          accepted, delimiter, fasta, sequences, idx, output, analysis>>

----------------------------------------------------------------------------
(* Bounds of the model *)

MaxConsLen == 2
MaxSeqLen == 4
MaxLines == 3

----------------------------------------------------------------------------
(* Generic helpers *)

None == <<>>
Some(x) == <<x>>

SeqsUpTo(S, n) == UNION {[1..k -> S] : k \in 0..n}

\* s[lo:hi] with Python's 0-based, end-exclusive slice (0 <= lo <= hi <= len)
Slice(s, lo, hi) == [i \in 1..(hi - lo) |-> s[lo + i]]

RECURSIVE Concat(_)
Concat(ss) == IF ss = <<>> THEN <<>> ELSE Head(ss) \o Concat(Tail(ss))

----------------------------------------------------------------------------
(* IUPAC table and the regex it compiles to *)

\* the table with the classes of B and D exchanged
IUPAC_CODES_Swapped ==
  [c \in {"A","C","G","T","R","Y","S","W","K","M","B","D","H","V","N"} |->
     CASE c = "A" -> <<"A">>
       [] c = "C" -> <<"C">>
       [] c = "G" -> <<"G">>
       [] c = "T" -> <<"T">>
       [] c = "R" -> <<"[","A","G","]">>
       [] c = "Y" -> <<"[","C","T","]">>
       [] c = "S" -> <<"[","G","C","]">>
       [] c = "W" -> <<"[","A","T","]">>
       [] c = "K" -> <<"[","G","T","]">>
       [] c = "M" -> <<"[","A","C","]">>
       [] c = "B" -> <<"[","A","G","T","]">>
       [] c = "D" -> <<"[","C","G","T","]">>
       [] c = "H" -> <<"[","A","C","T","]">>
       [] c = "V" -> <<"[","A","C","G","]">>
       [] c = "N" -> <<"[","A","C","G","T","]">>]

\* IUPAC_CODES: each code to the regex text that stands for it
IUPAC_CODES ==
  [c \in {"A","C","G","T","R","Y","S","W","K","M","B","D","H","V","N"} |->
     CASE c = "A" -> <<"A">>
       [] c = "C" -> <<"C">>
       [] c = "G" -> <<"G">>
       [] c = "T" -> <<"T">>
       [] c = "R" -> <<"[","A","G","]">>
       [] c = "Y" -> <<"[","C","T","]">>
       [] c = "S" -> <<"[","G","C","]">>
       [] c = "W" -> <<"[","A","T","]">>
       [] c = "K" -> <<"[","G","T","]">>
       [] c = "M" -> <<"[","A","C","]">>
       [] c = "B" -> <<"[","C","G","T","]">>
       [] c = "D" -> <<"[","A","G","T","]">>
       [] c = "H" -> <<"[","A","C","T","]">>
       [] c = "V" -> <<"[","A","C","G","]">>
       [] c = "N" -> <<"[","A","C","G","T","]">>]

\* validation that reports the last invalid base instead of the first
RECURSIVE validate_consensus_Last(_)
validate_consensus_Last(c) ==
  IF c = <<>> THEN None
  ELSE LET rest == validate_consensus_Last(Tail(c))
       IN  IF rest # None THEN rest
           ELSE IF Head(c) \notin DOMAIN IUPAC_CODES
                THEN Some([type |-> "ValueError", base |-> Head(c)])
                ELSE None

\* validation whose error also carries the 0-based index of the base
RECURSIVE validate_consensus_Indexed(_, _)
validate_consensus_Indexed(c, i) ==
  IF c = <<>> THEN None
  ELSE IF Head(c) \notin DOMAIN IUPAC_CODES
       THEN Some([type |-> "ValueError", base |-> Head(c), index |-> i])
       ELSE validate_consensus_Indexed(Tail(c), i + 1)

validate_consensus_WithIndex(c) == validate_consensus_Indexed(c, 0)

\* validate_consensus: the first base that is no key of IUPAC_CODES raises
\* ValueError(f"Invalid base '{base}' in consensus sequence."); the message
\* interpolates the base and nothing else.
RECURSIVE validate_consensus(_)
validate_consensus(c) ==
  IF c = <<>> THEN None
  ELSE IF Head(c) \notin DOMAIN IUPAC_CODES
       THEN Some([type |-> "ValueError", base |-> Head(c)])
       ELSE validate_consensus(Tail(c))

\* build_regex_from_consensus: ''.join(IUPAC_CODES[base] for base in consensus);
\* a base that is no key raises KeyError(base).
build_regex_KeyError(c) ==
  LET bad == {i \in 1..Len(c) : c[i] \notin DOMAIN IUPAC_CODES}
  IN  IF bad = {} THEN None
      ELSE Some([type |-> "KeyError",
                 base |-> c[CHOOSE i \in bad : \A j \in bad : i <= j]])


----------------------------------------------------------------------------
(* The regex engine on the patterns build_regex_from_consensus produces: a *)
(* concatenation of literals and bracketed character classes, each of      *)
(* which consumes exactly one character.                                   *)

\* index of the first "]" of src at or after position i
RECURSIVE ClassEnd(_, _)
ClassEnd(src, i) == IF src[i] = "]" THEN i ELSE ClassEnd(src, i + 1)

\* re.compile(src): the compiled pattern, as the list of the character sets it
\* matches one after another
RECURSIVE re_compile(_)
re_compile(src) ==
  IF src = <<>> THEN <<>>
  ELSE IF Head(src) = "["
       THEN LET e == ClassEnd(src, 2)
            IN  <<{src[i] : i \in 2..(e - 1)}>> \o re_compile(SubSeq(src, e + 1, Len(src)))
       ELSE <<{Head(src)}>> \o re_compile(Tail(src))

\* regex_pattern = ''.join(IUPAC_CODES[base] for base in consensus);
\* return re.compile(regex_pattern)
build_regex_from_consensus(c) ==
  re_compile(Concat([i \in 1..Len(c) |-> IUPAC_CODES[c[i]]]))

\* pattern.match(s, pos): the compiled pattern p matches s starting exactly at
\* the 0-based position pos
MatchAt(p, s, pos) ==
  /\ pos + Len(p) <= Len(s)
  /\ \A i \in 1..Len(p) : s[pos + i] \in p[i]

\* length of the text a match of p consumes: match.end() - match.start()
MatchLen(p) == Len(p)

\* pattern.search(s, from): the 0-based start of the leftmost match at or
\* after from, or -1 when there is none
Search(p, s, from) ==
  LET hits == {q \in from..Len(s) : MatchAt(p, s, q)}
  IN  IF hits = {} THEN -1 ELSE CHOOSE q \in hits : \A r \in hits : q <= r

----------------------------------------------------------------------------
(* MatchSpec: validate, compile, match one window *)

ConsensusChars ==
  {"A","C","G","T","R","Y","S","W","K","M","B","D","H","V","N","Z","a"}

WindowChars == {"A","C","G","T","N","a"}

MatchInit ==
  /\ consensus \in SeqsUpTo(ConsensusChars, MaxConsLen)
  /\ pc = "validate"
  /\ error = None
  /\ pattern = None
  /\ sequence = <<>>
  /\ start = 0
  /\ matches = <<>>
  /\ iters = 0
  /\ accepted = FALSE
  /\ delimiter = ""
  /\ fasta = None
  /\ sequences = None
  /\ idx = 0
  /\ output = None
  /\ analysis = None

MValidate ==
  /\ pc = "validate"
  /\ error' = validate_consensus(consensus)
  /\ pc' = IF error' = None THEN "compile" ELSE "raised"
  /\ UNCHANGED <<analysis, consensus, pattern, sequence, start, matches, iters, accepted,
                 delimiter, fasta, sequences, idx, output>>

MCompile ==
  /\ pc = "compile"
  /\ pattern' = Some(build_regex_from_consensus(consensus))
  /\ pc' = "match"
  /\ UNCHANGED <<analysis, consensus, error, sequence, start, matches, iters, accepted,
                 delimiter, fasta, sequences, idx, output>>

MMatch ==
  /\ pc = "match"
  /\ \E w \in [1..Len(consensus) -> WindowChars] :
       /\ sequence' = w
       /\ accepted' = MatchAt(pattern[1], w, 0)
  /\ pc' = "matched"
  /\ UNCHANGED <<analysis, consensus, error, pattern, start, matches, iters,
                 delimiter, fasta, sequences, idx, output>>

MatchNext == MValidate \/ MCompile \/ MMatch

MatchSpec == MatchInit /\ [][MatchNext]_vars

----------------------------------------------------------------------------
(* find_overlapping_matches *)

\* the body restarting the search at match.end(): non-overlapping matches
LoopBody_NoOverlap(s, p, st) ==
  LET m == Search(p, s, st.start)
  IN  IF m = -1
      THEN [st EXCEPT !.running = FALSE]
      ELSE [st EXCEPT !.matches = Append(@, Slice(s, m, m + MatchLen(p))),
                      !.start = m + MatchLen(p)]

\* the body restarting the search at match.start(): no progress
LoopBody_NoAdvance(s, p, st) ==
  LET m == Search(p, s, st.start)
  IN  IF m = -1
      THEN [st EXCEPT !.running = FALSE]
      ELSE [st EXCEPT !.matches = Append(@, Slice(s, m, m + MatchLen(p))),
                      !.start = m]

\* One pass through the body of `while start < len(sequence)`, on the local
\* state st = [start, matches, running]: search from start; no match breaks
\* out of the loop, a match appends the matched text and restarts the search
\* one past the start of the match.
LoopBody(s, p, st) ==
  LET m == Search(p, s, st.start)
  IN  IF m = -1
      THEN [st EXCEPT !.running = FALSE]
      ELSE [st EXCEPT !.matches = Append(@, Slice(s, m, m + MatchLen(p))),
                      !.start = m + 1]

LoopCond(s, st) == st.running /\ st.start < Len(s)

RECURSIVE RunLoop(_, _, _)
RunLoop(s, p, st) ==
  IF LoopCond(s, st) THEN RunLoop(s, p, LoopBody(s, p, st)) ELSE st.matches

find_overlapping_matches(s, p) ==
  RunLoop(s, p, [start |-> 0, matches |-> <<>>, running |-> TRUE])

----------------------------------------------------------------------------
(* ScanSpec: one call of find_overlapping_matches, iteration by iteration *)

ScanCodes == {"A","G","R","N"}

ScanChars == {"A","G","T","a"}

ScanInit ==
  /\ consensus \in SeqsUpTo(ScanCodes, MaxConsLen)
  /\ pc = "compile"
  /\ error = None
  /\ pattern = None
  /\ sequence = <<>>
  /\ start = 0
  /\ matches = <<>>
  /\ iters = 0
  /\ accepted = FALSE
  /\ delimiter = ""
  /\ fasta = None
  /\ sequences = None
  /\ idx = 0
  /\ output = None
  /\ analysis = None

SCompile ==
  /\ pc = "compile"
  /\ pattern' = Some(build_regex_from_consensus(consensus))
  /\ pc' = "call"
  /\ UNCHANGED <<analysis, consensus, error, sequence, start, matches, iters, accepted,
                 delimiter, fasta, sequences, idx, output>>

\* entry: matches = [], start = 0
SCall ==
  /\ pc = "call"
  /\ \E s \in SeqsUpTo(ScanChars, MaxSeqLen) : sequence' = s
  /\ start' = 0
  /\ matches' = <<>>
  /\ iters' = 0
  /\ pc' = "while"
  /\ UNCHANGED <<analysis, consensus, error, pattern, accepted,
                 delimiter, fasta, sequences, idx, output>>

SIterate ==
  /\ pc = "while"
  /\ LoopCond(sequence, [start |-> start, matches |-> matches, running |-> TRUE])
  /\ LET st == LoopBody(sequence, pattern[1],
                        [start |-> start, matches |-> matches, running |-> TRUE])
     IN  /\ start' = st.start
         /\ matches' = st.matches
         /\ pc' = IF st.running THEN "while" ELSE "return"
  /\ iters' = iters + 1
  /\ UNCHANGED <<analysis, consensus, error, pattern, sequence, accepted,
                 delimiter, fasta, sequences, idx, output>>

SExit ==
  /\ pc = "while"
  /\ ~LoopCond(sequence, [start |-> start, matches |-> matches, running |-> TRUE])
  /\ pc' = "return"
  /\ UNCHANGED <<analysis, consensus, error, pattern, sequence, start, matches, iters,
                 accepted, delimiter, fasta, sequences, idx, output>>

ScanNext == SCompile \/ SCall \/ SIterate \/ SExit

ScanSpec == ScanInit /\ [][ScanNext]_vars

\* the interpreter runs the loop to its end: no step is ever postponed forever
FairScanSpec == ScanSpec /\ WF_vars(ScanNext)

----------------------------------------------------------------------------
(* parse_fasta *)

\* the dict as the list of its items in insertion order; d[key] = value keeps
\* the place of a key that is already there
DictHas(d, k) == \E i \in 1..Len(d) : d[i].key = k

DictSet(d, k, v) ==
  IF DictHas(d, k)
  THEN [i \in 1..Len(d) |-> IF d[i].key = k THEN [key |-> k, value |-> v] ELSE d[i]]
  ELSE Append(d, [key |-> k, value |-> v])

DictGet(d, k) == (CHOOSE i \in 1..Len(d) : d[i].key = k)

IsHeader(line) == Len(line) >= 1 /\ line[1] = ">"

\* `elif current_seq_name:` is the truth value of the name: None and the empty
\* string are both false
Truthy(current) == current # None /\ current[1] # <<>>

\* the for loop over the lines of the file, from the state (current_seq_name,
\* sequences); the result is the dict, or the ValueError the loop raises
RECURSIVE ParseLines(_, _, _)
ParseLines(lines, current, seqs) ==
  IF lines = <<>> THEN [error |-> None, sequences |-> Some(seqs)]
  ELSE LET line == Head(lines)
       IN  IF IsHeader(line)
           THEN ParseLines(Tail(lines), Some(Tail(line)), DictSet(seqs, Tail(line), <<>>))
           ELSE IF Truthy(current)
                THEN LET k == current[1]
                         old == seqs[DictGet(seqs, k)].value
                     IN  ParseLines(Tail(lines), current, DictSet(seqs, k, old \o line))
                ELSE [error |-> Some([type |-> "ValueError", base |-> "Malformed FASTA file."]),
                      sequences |-> None]

parse_fasta(lines) == ParseLines(lines, None, <<>>)

----------------------------------------------------------------------------
(* process_fasta_file *)

\* Bio.Seq complement table on the characters of the model: the four bases
\* swap in pairs, N is its own complement, case is kept
Complement(ch) ==
  CASE ch = "A" -> "T"
    [] ch = "T" -> "A"
    [] ch = "C" -> "G"
    [] ch = "G" -> "C"
    [] ch = "a" -> "t"
    [] ch = "t" -> "a"
    [] OTHER -> ch

\* str(Seq(seq).reverse_complement())
reverse_complement(s) == [i \in 1..Len(s) |-> Complement(s[Len(s) + 1 - i])]

\* delimiter.join(matches)
RECURSIVE Join(_, _)
Join(d, ms) ==
  IF ms = <<>> THEN <<>>
  ELSE IF Len(ms) = 1 THEN ms[1]
  ELSE ms[1] \o <<d>> \o Join(d, Tail(ms))

\* the two strands scanned in the opposite order
strand_matches_ReverseFirst(seq, p) ==
  find_overlapping_matches(reverse_complement(seq), p) \o find_overlapping_matches(seq, p)

\* matches of both strands of one sequence, forward first
strand_matches(seq, p) ==
  find_overlapping_matches(seq, p) \o find_overlapping_matches(reverse_complement(seq), p)

\* None decided by the forward strand alone
tfbs_results_NoneOnForward(d, seq, p) ==
  IF find_overlapping_matches(seq, p) # <<>> THEN Join(d, strand_matches(seq, p)) ELSE <<"None">>

\* delimiter.join(matches) if matches else "None"
tfbs_results(d, seq, p) ==
  IF strand_matches(seq, p) # <<>> THEN Join(d, strand_matches(seq, p)) ELSE <<"None">>

\* f"{seq_id}{delimiter}{tfbs_results}\n", as the line without its newline
record_line(d, seq_id, seq, p) == seq_id \o <<d>> \o tfbs_results(d, seq, p)

\* f"Sequence_ID{delimiter}TFBS\n"
header_line(d) == <<"Sequence_ID", d, "TFBS">>

----------------------------------------------------------------------------
(* part2.py: analyze_tfbs_output *)

\* characters str.strip() removes from both ends
Whitespace == {"\t", " ", "\n"}

RECURSIVE LStrip(_)
LStrip(s) == IF s # <<>> /\ Head(s) \in Whitespace THEN LStrip(Tail(s)) ELSE s

RECURSIVE RStrip(_)
RStrip(s) ==
  IF s # <<>> /\ s[Len(s)] \in Whitespace THEN RStrip(SubSeq(s, 1, Len(s) - 1)) ELSE s

\* line.strip()
Strip(s) == RStrip(LStrip(s))

\* s.split(sep): the fields between the occurrences of sep, at least one
RECURSIVE Split(_, _)
Split(s, sep) ==
  LET at == {i \in 1..Len(s) : s[i] = sep}
  IN  IF at = {} THEN <<s>>
      ELSE LET i == CHOOSE k \in at : \A j \in at : k <= j
           IN  <<SubSeq(s, 1, i - 1)>> \o Split(SubSeq(s, i + 1, Len(s)), sep)

\* Counter.update(keys): one more for each key of the list
RECURSIVE CounterUpdate(_, _)
CounterUpdate(c, keys) ==
  IF keys = <<>> THEN c
  ELSE LET k == Head(keys)
           c1 == IF k \in DOMAIN c THEN [c EXCEPT ![k] = @ + 1] ELSE c @@ (k :> 1)
       IN  CounterUpdate(c1, Tail(keys))

\* the for loop over the lines after the header, from the locals (tfbs_counts,
\* no_tfbs_count); a line of fewer than two tab-separated fields raises
\* ValueError("Invalid line format")
RECURSIVE AnalyzeLines(_, _, _)
AnalyzeLines(lines, counts, none) ==
  IF lines = <<>>
  THEN [error |-> None, tfbs_counts |-> counts, no_tfbs_count |-> none]
  ELSE LET fields == Split(Strip(Head(lines)), "\t")
           tfbs == Join(",", Tail(fields))
       IN  IF Len(fields) < 2
           THEN [error |-> Some([type |-> "ValueError", base |-> "Invalid line format"]),
                 tfbs_counts |-> counts, no_tfbs_count |-> none]
           ELSE IF tfbs = <<"None">>
                THEN AnalyzeLines(Tail(lines), counts, none + 1)
                ELSE AnalyzeLines(Tail(lines), CounterUpdate(counts, Split(tfbs, ",")), none)

\* analyze_tfbs_output(input_file): next(file) skips the header, then the loop;
\* the outcome is the tally and the no-TFBS count, or the error raised
analyze_tfbs_output(lines) == AnalyzeLines(Tail(lines), <<>>, 0)

----------------------------------------------------------------------------
(* Spec: one run of main *)

DriverChars == {"A","W","Z"}

Headers == {<<">">>, <<">","s">>, <<">","t">>}

DataLines == {<<>>, <<"A">>, <<"A","T">>, <<"T","G">>, <<"N","A">>}

Files == SeqsUpTo(Headers \cup DataLines, MaxLines)

Init ==
  /\ consensus \in SeqsUpTo(DriverChars, MaxConsLen)
  /\ pc = "main"
  /\ error = None
  /\ pattern = None
  /\ sequence = <<>>
  /\ start = 0
  /\ matches = <<>>
  /\ iters = 0
  /\ accepted = FALSE
  /\ delimiter = ""
  /\ fasta = None
  /\ sequences = None
  /\ idx = 0
  /\ output = None
  /\ analysis = None

\* main going on to process_fasta_file without validating the consensus
Validate_Skipped ==
  /\ pc = "main"
  /\ pc' = "process"
  /\ UNCHANGED <<analysis, consensus, error, pattern, sequence, start, matches, iters,
                 accepted, delimiter, fasta, sequences, idx, output>>

\* main: validate_consensus(args.consensus); a ValueError is caught and logged
Validate ==
  /\ pc = "main"
  /\ error' = validate_consensus(consensus)
  /\ pc' = IF error' = None THEN "process" ELSE "caught"
  /\ UNCHANGED <<analysis, consensus, pattern, sequence, start, matches, iters, accepted,
                 delimiter, fasta, sequences, idx, output>>

\* main picks the delimiter; process_fasta_file compiles the consensus
Compile ==
  /\ pc = "process"
  /\ \E d \in {"\t", ","} : delimiter' = d
  /\ IF build_regex_KeyError(consensus) = None
     THEN /\ pattern' = Some(build_regex_from_consensus(consensus))
          /\ pc' = "parse"
          /\ error' = error
     ELSE /\ pattern' = pattern
          /\ pc' = "uncaught"
          /\ error' = build_regex_KeyError(consensus)
  /\ UNCHANGED <<analysis, consensus, sequence, start, matches, iters, accepted,
                 fasta, sequences, idx, output>>

\* sequences = parse_fasta(input_fasta): the file is read here
Parse ==
  /\ pc = "parse"
  /\ \E f \in Files :
       /\ fasta' = Some(f)
       /\ error' = parse_fasta(f).error
       /\ sequences' = parse_fasta(f).sequences
  /\ pc' = IF error' = None THEN "open" ELSE "caught"
  /\ UNCHANGED <<analysis, consensus, pattern, sequence, start, matches, iters, accepted,
                 delimiter, idx, output>>

\* open(fasta_file) raises FileNotFoundError, which main does not catch
ParseMissing ==
  /\ pc = "parse"
  /\ error' = Some([type |-> "FileNotFoundError", base |-> "input_fasta"])
  /\ pc' = "uncaught"
  /\ UNCHANGED <<analysis, consensus, pattern, sequence, start, matches, iters, accepted,
                 delimiter, fasta, sequences, idx, output>>

\* open(output_file, 'w') and the header
OpenOutput ==
  /\ pc = "open"
  /\ output' = Some(<<header_line(delimiter)>>)
  /\ idx' = 0
  /\ pc' = "items"
  /\ UNCHANGED <<analysis, consensus, error, pattern, sequence, start, matches, iters,
                 accepted, delimiter, fasta, sequences>>

\* one pass of `for seq_id, seq in sequences.items()`
ProcessSequence ==
  /\ pc = "items"
  /\ idx < Len(sequences[1])
  /\ LET item == sequences[1][idx + 1]
     IN  /\ sequence' = item.value
         /\ matches' = strand_matches(item.value, pattern[1])
         /\ output' = Some(Append(output[1],
                             record_line(delimiter, item.key, item.value, pattern[1])))
  /\ idx' = idx + 1
  /\ UNCHANGED <<analysis, pc, consensus, error, pattern, start, iters, accepted,
                 delimiter, fasta, sequences>>

\* the for loop is exhausted; the file is closed
Finish ==
  /\ pc = "items"
  /\ idx = Len(sequences[1])
  /\ pc' = "done"
  /\ UNCHANGED <<analysis, consensus, error, pattern, sequence, start, matches, iters,
                 accepted, delimiter, fasta, sequences, idx, output>>

\* part2.py is run on the file part1.py has written
Analyze ==
  /\ pc = "done"
  /\ analysis' = Some(analyze_tfbs_output(output[1]))
  /\ pc' = "analyzed"
  /\ UNCHANGED <<consensus, error, pattern, sequence, start, matches, iters,
                 accepted, delimiter, fasta, sequences, idx, output>>

Next ==
  \/ Validate
  \/ Compile
  \/ Parse
  \/ ParseMissing
  \/ OpenOutput
  \/ ProcessSequence
  \/ Finish
  \/ Analyze

Spec == Init /\ [][Next]_vars

----------------------------------------------------------------------------
(* Reference definitions the properties are stated with *)

IupacSymbols == {"A","C","G","T","R","Y","S","W","K","M","B","D","H","V","N"}

Bases == {"A","C","G","T"}

BaseSet(code) ==
  CASE code = "A" -> {"A"}
    [] code = "C" -> {"C"}
    [] code = "G" -> {"G"}
    [] code = "T" -> {"T"}
    [] code = "R" -> {"A","G"}
    [] code = "Y" -> {"C","T"}
    [] code = "S" -> {"G","C"}
    [] code = "W" -> {"A","T"}
    [] code = "K" -> {"G","T"}
    [] code = "M" -> {"A","C"}
    [] code = "B" -> {"C","G","T"}
    [] code = "D" -> {"A","G","T"}
    [] code = "H" -> {"A","C","T"}
    [] code = "V" -> {"A","C","G"}
    [] code = "N" -> {"A","C","G","T"}

\* the window w is accepted by the consensus c, position by position
Accepts(c, w) ==
  /\ Len(w) = Len(c)
  /\ \A i \in 1..Len(c) : w[i] \in BaseSet(c[i])

\* the accepted windows of s at the offsets o, o+1, ..., len(s)-k, in that order
RECURSIVE OccurrencesFrom(_, _, _)
OccurrencesFrom(s, c, o) ==
  IF o > Len(s) - Len(c) THEN <<>>
  ELSE (IF Accepts(c, Slice(s, o, o + Len(c))) THEN <<Slice(s, o, o + Len(c))>> ELSE <<>>)
       \o OccurrencesFrom(s, c, o + 1)

Occurrences(s, c) == OccurrencesFrom(s, c, 0)

\* the sequence reversed, with A<->T and C<->G swapped and anything else kept
SwapBase(ch) ==
  CASE ch = "A" -> "T" [] ch = "T" -> "A" [] ch = "C" -> "G" [] ch = "G" -> "C"
    [] OTHER -> ch

ReversedComplement(s) == [i \in 1..Len(s) |-> SwapBase(s[Len(s) + 1 - i])]

\* positions of the characters of c that are no IUPAC symbol
InvalidAt(c) == {i \in 1..Len(c) : c[i] \notin IupacSymbols}

FirstInvalid(c) == CHOOSE i \in InvalidAt(c) : \A j \in InvalidAt(c) : i <= j

----------------------------------------------------------------------------
(* C2 *)

\* C2: the compiled matcher accepts a window of the consensus's length exactly
\* when every character of the window is in the base set of the IUPAC code at
\* its position; a window holding any character outside A, C, G, T (a
\* lower-case letter, an ambiguity code) is never accepted.
C2_MatcherIsBaseSets ==
  pc = "matched" =>
    /\ accepted <=> (\A i \in 1..Len(consensus) : sequence[i] \in BaseSet(consensus[i]))
    /\ (\E i \in 1..Len(sequence) : sequence[i] \notin Bases) => ~accepted

C2_Witness ==
  /\ pc = "matched"
  /\ consensus = <<"B","N">>
  /\ sequence = <<"T","C">>
  /\ accepted

----------------------------------------------------------------------------
(* C3 *)

\* C3: validate_consensus returns without error exactly when every character
\* of the consensus is one of the 15 IUPAC symbols; otherwise it raises
\* ValueError naming the first invalid character from the left.
C3_ValidateIffIupac ==
  pc # "validate" =>
    /\ error = None <=> (\A i \in 1..Len(consensus) : consensus[i] \in IupacSymbols)
    /\ error # None =>
         /\ error[1].type = "ValueError"
         /\ error[1].base = consensus[FirstInvalid(consensus)]

C3_Witness ==
  /\ pc = "raised"
  /\ consensus = <<"Z","a">>
  /\ error[1].base = "Z"

----------------------------------------------------------------------------
(* C7 *)

\* C7 as claimed: the error of a failed validation identifies the offending
\* character and its 0-based index in the consensus.
C7_ErrorCarriesIndex ==
  pc = "raised" =>
    /\ error[1].base = consensus[FirstInvalid(consensus)]
    /\ "index" \in DOMAIN error[1]
    /\ error[1].index = FirstInvalid(consensus) - 1

\* C7 as amended: the error of a failed validation identifies the offending
\* character (the first invalid one) and nothing else: it carries no position,
\* so it is the same wherever that character sits in the consensus.
C7_ErrorCarriesBaseOnly ==
  pc = "raised" =>
    error = Some([type |-> "ValueError", base |-> consensus[FirstInvalid(consensus)]])

C7_Witness ==
  /\ pc = "raised"
  /\ consensus = <<"A","Z">>
  /\ error[1].base = "Z"
  /\ DOMAIN error[1] = {"type", "base"}

----------------------------------------------------------------------------
(* C1 *)

\* C1: for a consensus of length k >= 1, find_overlapping_matches returns one
\* entry for each offset 0..len(s)-k whose window the matcher accepts, in
\* ascending offset order, overlapping occurrences included; the result is
\* empty when len(s) < k.
C1_AllOffsetsInOrder ==
  (pc = "return" /\ Len(consensus) >= 1) =>
    /\ matches = Occurrences(sequence, consensus)
    /\ Len(sequence) < Len(consensus) => matches = <<>>

C1_Witness ==
  /\ pc = "return"
  /\ consensus = <<"A","A">>
  /\ sequence = <<"A","A","A","A">>
  /\ matches = <<<<"A","A">>, <<"A","A">>, <<"A","A">>>>

----------------------------------------------------------------------------
(* C8 *)

\* C8 as claimed: the result of find_overlapping_matches carries each
\* occurrence's start offset, so any two occurrences in it, being at different
\* offsets, are distinguishable entries.
C8_OccurrencesDistinguishable ==
  (pc = "return" /\ Len(consensus) >= 1) =>
    \A i, j \in 1..Len(matches) : i # j => matches[i] # matches[j]

----------------------------------------------------------------------------
(* C10 *)

\* C10: the scan loop terminates for every sequence and every compiled
\* pattern, the empty pattern included: an iteration that appends a match
\* strictly increases start, the loop begins at most len(sequence)
\* iterations, it returns at most len(sequence) matches, and it returns.
C10_ScanTerminates ==
  /\ [][/\ Len(matches') > Len(matches) => start' > start
        /\ iters' <= Len(sequence')
        /\ Len(matches') <= Len(sequence')]_vars
  /\ <>(pc = "return")

C10_Witness ==
  /\ pc = "return"
  /\ consensus = <<>>
  /\ Len(sequence) = 3
  /\ iters = 3
  /\ matches = <<<<>>, <<>>, <<>>>>

----------------------------------------------------------------------------
(* C4 *)

\* the scan result the claims expect of one strand: the accepted windows in
\* offset order (for the empty consensus, one empty match per position)
StrandScan(s, c) ==
  IF c = <<>> THEN [i \in 1..Len(s) |-> <<>>] ELSE Occurrences(s, c)

\* C4: the match list of each sequence is the forward-strand scan followed by
\* the scan of the reverse complement (reversed, A<->T and C<->G swapped),
\* each part in ascending offset order of its own strand.
C4_ForwardThenReverse ==
  (pc \in {"items", "done"} /\ idx >= 1) =>
    /\ sequence = sequences[1][idx].value
    /\ matches = StrandScan(sequence, consensus)
                   \o StrandScan(ReversedComplement(sequence), consensus)

C4_Witness ==
  /\ pc = "done"
  /\ consensus = <<"W","W">>
  /\ sequence = <<"A","T","G">>
  /\ matches = <<<<"A","T">>, <<"A","T">>>>

----------------------------------------------------------------------------
(* C5 *)

\* C5: the output is one header record followed by one record per parsed
\* sequence, in the order of the parsed mapping; a record is the identifier,
\* the delimiter and the delimiter-joined matches of both strands, with the
\* token None in place of the matches exactly when there are none.
C5_OneRecordPerSequence ==
  output # None =>
    LET lines == output[1]
        d == sequences[1]
        both(s) == StrandScan(s, consensus) \o StrandScan(ReversedComplement(s), consensus)
    IN  /\ lines[1] = <<"Sequence_ID", delimiter, "TFBS">>
        /\ Len(lines) = 1 + idx
        /\ pc = "done" => idx = Len(d)
        /\ \A i \in 1..idx :
             LET rest == SubSeq(lines[i + 1], Len(d[i].key) + 2, Len(lines[i + 1]))
             IN  /\ SubSeq(lines[i + 1], 1, Len(d[i].key) + 1) = d[i].key \o <<delimiter>>
                 /\ rest = <<"None">> <=> both(d[i].value) = <<>>
                 /\ both(d[i].value) # <<>> => rest = Join(delimiter, both(d[i].value))

C5_Witness ==
  /\ pc = "done"
  /\ output = Some(<< <<"Sequence_ID", ",", "TFBS">>,
                      <<"s", ",", "None">>,
                      <<"t", ",", "A", ",", "A">> >>)

----------------------------------------------------------------------------
(* C6 *)

\* C6: validation comes before compilation, parsing, scanning and writing;
\* with a character outside the 15 IUPAC symbols in the consensus the error
\* is raised by the validation, nothing is compiled, parsed or scanned and
\* the output file is never written.
C6_ValidationFirst ==
  /\ pc = "main" =>
       pattern = None /\ fasta = None /\ sequences = None /\ output = None /\ matches = <<>>
  /\ InvalidAt(consensus) # {} =>
       /\ pc \in {"main", "caught"}
       /\ pc = "caught" => error # None /\ error[1].type = "ValueError"
       /\ pattern = None /\ fasta = None /\ sequences = None
       /\ matches = <<>> /\ idx = 0
       /\ output = None

C6_Witness ==
  /\ pc = "caught"
  /\ consensus = <<"A","Z">>
  /\ error = Some([type |-> "ValueError", base |-> "Z"])
  /\ output = None

----------------------------------------------------------------------------
(* C9 *)

\* a data line comes before any header line
DataBeforeHeader(f) == f # <<>> /\ ~IsHeader(f[1])

\* the data lines between the header at h and the next header, joined
RECURSIVE BlockAfter(_, _)
BlockAfter(f, h) ==
  IF h + 1 > Len(f) \/ IsHeader(f[h + 1]) THEN <<>>
  ELSE f[h + 1] \o BlockAfter(f, h + 1)

\* identifiers in the order of their first header, each with the data lines
\* that follow its (last) header
RECURSIVE MappingFrom(_, _, _)
MappingFrom(f, h, seen) ==
  IF h > Len(f) THEN <<>>
  ELSE IF IsHeader(f[h]) /\ Tail(f[h]) \notin seen
       THEN LET id == Tail(f[h])
                last == CHOOSE k \in h..Len(f) :
                          /\ IsHeader(f[k]) /\ Tail(f[k]) = id
                          /\ \A m \in (k + 1)..Len(f) : ~(IsHeader(f[m]) /\ Tail(f[m]) = id)
            IN  <<[key |-> id, value |-> BlockAfter(f, last)]>>
                  \o MappingFrom(f, h + 1, seen \cup {id})
       ELSE MappingFrom(f, h + 1, seen)

\* C9 as claimed: parse_fasta raises on every input with a data line before
\* any header, and then nothing is scanned or written; on every input whose
\* data lines all follow a header it returns the mapping from each identifier
\* to the concatenation of its data lines.
C9_RejectsOnlyHeaderlessData ==
  fasta # None =>
    IF DataBeforeHeader(fasta[1])
    THEN /\ error # None /\ error[1].type = "ValueError"
         /\ sequences = None /\ output = None /\ matches = <<>> /\ idx = 0
    ELSE /\ error = None
         /\ sequences = Some(MappingFrom(fasta[1], 1, {}))

----------------------------------------------------------------------------
(* C11 *)

\* every match written for the parsed sequences, record after record
AllWritten ==
  Concat([i \in 1..Len(sequences[1]) |->
            StrandScan(sequences[1][i].value, consensus)
              \o StrandScan(ReversedComplement(sequences[1][i].value), consensus)])

\* number of entries of the list ms equal to m
Occurs(ms, m) == Cardinality({i \in 1..Len(ms) : ms[i] = m})

\* number of parsed sequences without a match on either strand
ZeroMatchSequences ==
  Cardinality({i \in 1..Len(sequences[1]) :
                 StrandScan(sequences[1][i].value, consensus)
                   \o StrandScan(ReversedComplement(sequences[1][i].value), consensus) = <<>>})

\* C11 as claimed: on every results file process_fasta_file writes, with the
\* tab or the comma delimiter, analyze_tfbs_output completes without error,
\* its no-TFBS count is the number of sequences without a match, and its tally
\* of each motif is the number of times that motif was written.
C11_AnalysisAgreesWithOutput ==
  pc = "analyzed" =>
    /\ analysis[1].error = None
    /\ analysis[1].no_tfbs_count = ZeroMatchSequences
    /\ DOMAIN analysis[1].tfbs_counts = {AllWritten[i] : i \in 1..Len(AllWritten)}
    /\ \A m \in DOMAIN analysis[1].tfbs_counts :
         analysis[1].tfbs_counts[m] = Occurs(AllWritten, m)

====
